---- MODULE Spec2Model ----
(***************************************************************************)
(* A model of the TfqSimulateMPS1DExpectation kernel                       *)
(* (tensorflow_quantum/core/ops/math_ops/tfq_simulate_1d_expectation.cc):  *)
(* Compute with its parallel circuit construction phase and the sequential *)
(* simulation loop of ComputeLarge.                                        *)
(***************************************************************************)
EXTENDS Integers, Sequences, FiniteSets, TLC

\* ---------------------------------------------------------------- bounds
MaxBatch == 2      \* largest number of programs / symbol maps in a batch
MaxGates == 2      \* largest number of gates in one program
MaxQubits == 2     \* largest num_qubits of one program
MaxOps == 2        \* largest number of pauli sums per program
NumWorkers == 2    \* threads of the cpu worker pool

\* ---------------------------------------------------------------- values
Min(a, b) == IF a < b THEN a ELSE b
Max(a, b) == IF a < b THEN b ELSE a

RECURSIVE MaxOver(_, _)
\* max(1, f[0], ..., f[n-1])
MaxOver(f, n) == IF n = 0 THEN 1 ELSE Max(MaxOver(f, n - 1), f[n - 1])

SeqsUpTo(S, n) == UNION {[1..k -> S] : k \in 0..n}

\* The one-qubit gates of the modelled programs, all acting on qubit 0.
GateNames == {"X", "H"}
Gate == [name : GateNames, q : {0}]

\* What GetProgramsAndNumQubits hands to Compute for one batch item: the
\* gate list of the program and its qubit count.  An empty program has no
\* qubits.  The gates act on qubit 0 and the further qubits matter to the
\* size of the buffers only: the programs of more than one qubit all have
\* the one gate X.
Program ==
    {p \in [gates : SeqsUpTo(Gate, MaxGates), nq : 0..MaxQubits] :
        /\ (p.gates = <<>>) <=> (p.nq = 0)
        /\ p.nq > 1 => p.gates = <<[name |-> "X", q |-> 0]>>}

\* The observables: a single Pauli operator on qubit 0 with weight 1.  The
\* kernel reads only the number of columns, so the batches of the model take
\* Z in the even columns and X in the odd ones.
Paulis == {"Z", "X"}
PauliColumns(m) == [c \in 0..m - 1 |-> IF c % 2 = 0 THEN "Z" ELSE "X"]

\* One site of the matrix product state, as a single-qubit stabilizer state.
Site == {"0", "1", "+", "-"}

\* The symbols a program can refer to, and what a batch item says about
\* them: the symbol of the program that its symbol map lacks, or Resolved.
Symbols == {"a", "b"}
Resolved == "-"

\* tensorflow::Status values: the code and what the message names.
OK == [code |-> "OK", what |-> "-"]
ErrBatchSize == [code |-> "InvalidArgument", what |-> "sizes"]
ErrUnresolved(sym) == [code |-> "UnresolvedSymbol", what |-> sym]
ErrTopology == [code |-> "TopologyError", what |-> "1D"]

\* Contents of memory that was allocated and never written, as a reader
\* can find them.
Garbage == {0, 3}

\* A cell of the output tensor that was never assigned; val says nothing,
\* what is read from such a cell is in Observe.
Unwritten == [written |-> FALSE, val |-> 0]

\* A program of one X gate, and a program of three qubits whose only gate is
\* a two-qubit gate on the qubits 0 and 2, which are not neighbours.
XProgram == [gates |-> <<[name |-> "X", q |-> 0]>>, nq |-> 1]
FarGate == [name |-> "CZ", q |-> 0, q2 |-> 2]
NonChain == [gates |-> <<FarGate>>, nq |-> 3]

\* Every two-qubit gate of the program p acts on neighbouring qubits.
IsChain(p) ==
    \A g \in 1..Len(p.gates) :
        "q2" \in DOMAIN p.gates[g] =>
            \/ p.gates[g].q2 - p.gates[g].q = 1
            \/ p.gates[g].q - p.gates[g].q2 = 1

\* The batches with a program that is not a chain.  Compute stops at the 1D
\* check on them, so their other programs are all XProgram.
NonChainBatches ==
    UNION {{b \in [0..n - 1 -> {XProgram, NonChain}] :
                \E k \in 0..n - 1 : b[k] = NonChain} : n \in 1..MaxBatch}

\* The programs of an input batch whose item k lacks the symbol mp[k].
\* Construction only copies the gates of a program and simulation never
\* starts when an item fails, so the chain batches with a failing item all
\* carry one program, whose gate is the one that refers to the symbol.
Batches(mp) ==
    NonChainBatches \cup
    IF \A k \in DOMAIN mp : mp[k] = Resolved
       THEN UNION {[0..n - 1 -> Program] : n \in 0..MaxBatch}
       ELSE {[k \in 0..n - 1 |-> XProgram] : n \in 0..MaxBatch}

\* ---------------------------------------------------------------- state
VARIABLES
    programs,       \* input 0 after parsing: 0..N-1 -> Program
    maps,           \* input 1,2 after parsing: per item, the symbol it lacks
    pauli_sums,     \* input 3 after parsing: column j -> Pauli operator
    pc,             \* position of Compute
    status,         \* the status of the OpKernelContext
    output,         \* output tensor: cell -> [written, val]
    qsim_circuits,  \* per item, the constructed gate list
    slot_writes,    \* per item, how many times its result slots were written
    parse_status,   \* the shared status slot of the construction phase
    p_lock,         \* holder of p_lock, 0 when free
    block_size,     \* shard size chosen by ParallelFor
    next,           \* first index not yet handed to a worker
    wk,             \* per worker: position in construct_f
    largest_nq,     \* ComputeLarge: allocated qubit count
    sv,             \* ComputeLarge: the state buffer, qubit -> Site
    scratch_nq,     \* ComputeLarge: qubit count of the scratch buffer
    i,              \* ComputeLarge: batch index of the loop
    j,              \* ComputeLarge: gate / pauli sum index of the inner loops
    sim_ops,        \* counts of the calls made on the simulator
    num_failed,     \* the item a gate application failed numerically on, or -1
    result,         \* what the caller of Compute received
    run,            \* which call of Compute on these inputs this is
    prev            \* what the caller received from the call before

inputs == <<programs, maps, pauli_sums>>
par == <<qsim_circuits, slot_writes, parse_status, p_lock, block_size, next, wk>>
large == <<largest_nq, sv, scratch_nq, i, j, sim_ops, num_failed>>
caller == <<result, run, prev>>
vars == <<inputs, pc, status, output, par, large, caller>>

N == Cardinality(DOMAIN programs)
M == Cardinality(DOMAIN pauli_sums)
Workers == 1..NumWorkers
\* Lines 67-68: the two dimensions of the output tensor.
output_dim_batch_size == Cardinality(DOMAIN programs)
output_dim_op_size == Cardinality(DOMAIN pauli_sums)
Cells == (0..output_dim_batch_size - 1) \X (0..output_dim_op_size - 1)
num_qubits == [k \in 0..N - 1 |-> programs[k].nq]

Idle == [pc |-> "idle", i |-> 0, end |-> 0, local |-> OK]
NoOps == [create |-> 0, setzero |-> 0, apply |-> 0, expect |-> 0]
None == [status |-> OK, cells |-> <<>>, valid |-> FALSE]

\* The state of a call of Compute before its first step.
Fresh ==
    /\ pc = "start"
    /\ status = OK
    /\ output = <<>>
    /\ qsim_circuits = <<>>
    /\ slot_writes = <<>>
    /\ parse_status = OK
    /\ p_lock = 0
    /\ block_size = 0
    /\ next = 0
    /\ wk = [w \in Workers |-> Idle]
    /\ largest_nq = 0
    /\ sv = <<>>
    /\ scratch_nq = 0
    /\ i = 0
    /\ j = 0
    /\ sim_ops = NoOps
    /\ num_failed = -1
    /\ result = None

Init ==
    /\ \E k \in 0..MaxBatch : maps \in [0..k - 1 -> Symbols \cup {Resolved}]
    /\ programs \in Batches(maps)
    /\ \E m \in 1..MaxOps : pauli_sums = PauliColumns(m)
    /\ Fresh
    /\ run = 1
    /\ prev = None

\* ------------------------------------------------- Compute: lines 59-139
\* allocate_output: an N x M tensor whose cells hold whatever the memory held.
AllocateOutput ==
    /\ pc = "start"
    /\ output' = [c \in Cells |-> Unwritten]
    /\ pc' = "parse"
    /\ UNCHANGED <<inputs, status, par, large, caller>>

\* A check that only asks for enough symbol maps.
BatchSizesMatch_Enough == N <= Cardinality(DOMAIN maps)

\* The condition of the OP_REQUIRES on the two batch sizes.
BatchSizesMatch == N = Cardinality(DOMAIN maps)

\* GetProgramsAndNumQubits, GetSymbolMaps and the batch size check.
CheckBatchSize ==
    /\ pc = "parse"
    /\ IF BatchSizesMatch
          THEN pc' = "check1d" /\ UNCHANGED status
          ELSE pc' = "done" /\ status' = ErrBatchSize
    /\ UNCHANGED <<inputs, output, par, large, caller>>

\* CheckQubitsIn1D: fails when a program of the batch is not a chain.
CheckQubitsIn1D(progs) ==
    IF \A k \in DOMAIN progs : IsChain(progs[k]) THEN OK ELSE ErrTopology

\* A Compute that does not look at the result of the 1D check.
Qubits1DOK_Ignored == TRUE

\* The condition of OP_REQUIRES_OK(context, CheckQubitsIn1D(&programs)).
Qubits1DOK == CheckQubitsIn1D(programs) = OK

\* The 1D check, then the construction of the result slots and the start of
\* ParallelFor, which cuts 0..N-1 into shards of one size.
CheckQubits ==
    /\ pc = "check1d"
    /\ IF Qubits1DOK
          THEN /\ pc' = "construct"
               /\ qsim_circuits' = [k \in 0..N - 1 |-> <<>>]
               /\ slot_writes' = [k \in 0..N - 1 |-> 0]
               /\ parse_status' = OK
               /\ \E b \in 1..Max(N, 1) : block_size' = b
               /\ UNCHANGED <<status, p_lock, next, wk>>
          ELSE /\ pc' = "done"
               /\ status' = CheckQubitsIn1D(programs)
               /\ UNCHANGED par
    /\ UNCHANGED <<inputs, output, large, caller>>

\* ------------------------------------------- construct_f: lines 105-112
\* QsimCircuitFromProgram: the status it returns and the circuit it builds.
\* It fails when the symbol map lacks a symbol of the program.
QsimCircuitFromProgram(prog, map) ==
    IF map = Resolved THEN [status |-> OK, circuit |-> prog.gates]
                      ELSE [status |-> ErrUnresolved(map), circuit |-> <<>>]

\* A store that keeps the last failure.
NESTED_FN_STATUS_SYNC_Last(global, local) == local

\* NESTED_FN_STATUS_SYNC, the store made while p_lock is held: the first
\* failure stays in the slot, later ones are dropped.
NESTED_FN_STATUS_SYNC(global, local) == IF global = OK THEN local ELSE global

\* A loop that ignores start.
FirstIndex_Zero(start) == 0

\* The first index of the loop of construct_f(start, end).
FirstIndex(start) == start

\* The end of the shard ParallelFor starts at index start.
BlockEnd(start) == Min(start + block_size, N)

\* Where a worker goes after it is done with index k of a shard ending at e.
Advance(w, k, e) ==
    IF k + 1 < e THEN [pc |-> "run", i |-> k + 1, end |-> e, local |-> OK]
                 ELSE Idle

\* ParallelFor hands the next shard to a free worker: construct_f(start, end).
\* The threads of the pool are interchangeable: the free one with the lowest
\* number takes the shard.
TakeBlock(w) ==
    /\ pc = "construct"
    /\ wk[w].pc = "idle"
    /\ \A v \in 1..w - 1 : wk[v].pc # "idle"
    /\ next < N
    /\ wk' = [wk EXCEPT ![w] = [pc |-> "run", i |-> FirstIndex(next),
                                end |-> BlockEnd(next), local |-> OK]]
    /\ next' = BlockEnd(next)
    /\ UNCHANGED <<inputs, pc, status, output, qsim_circuits, slot_writes,
                   parse_status, p_lock, block_size, large, caller>>

\* One iteration of the loop up to the lock of NESTED_FN_STATUS_SYNC: the
\* call of QsimCircuitFromProgram on the slots of index i.
Construct(w) ==
    /\ pc = "construct"
    /\ wk[w].pc = "run"
    /\ LET k == wk[w].i
           r == QsimCircuitFromProgram(programs[k], maps[k])
       IN /\ qsim_circuits' = [qsim_circuits EXCEPT ![k] = r.circuit]
          /\ slot_writes' = [slot_writes EXCEPT ![k] = @ + 1]
          /\ wk' = [wk EXCEPT ![w] =
                       IF r.status = OK THEN Advance(w, k, wk[w].end)
                       ELSE [@ EXCEPT !.pc = "sync", !.local = r.status]]
    /\ UNCHANGED <<inputs, pc, status, output, parse_status, p_lock,
                   block_size, next, large, caller>>

\* NESTED_FN_STATUS_SYNC of a failed item: take p_lock.
SyncLock(w) ==
    /\ pc = "construct"
    /\ wk[w].pc = "sync"
    /\ p_lock = 0
    /\ p_lock' = w
    /\ wk' = [wk EXCEPT ![w].pc = "locked"]
    /\ UNCHANGED <<inputs, pc, status, output, qsim_circuits, slot_writes,
                   parse_status, block_size, next, large, caller>>

\* NESTED_FN_STATUS_SYNC of a failed item: store, release p_lock, go on.
SyncStore(w) ==
    /\ pc = "construct"
    /\ wk[w].pc = "locked"
    /\ parse_status' = NESTED_FN_STATUS_SYNC(parse_status, wk[w].local)
    /\ p_lock' = 0
    /\ wk' = [wk EXCEPT ![w] = Advance(w, wk[w].i, wk[w].end)]
    /\ UNCHANGED <<inputs, pc, status, output, qsim_circuits, slot_writes,
                   block_size, next, large, caller>>

\* A Compute that does not look at parse_status.
ParseStatusOK_Ignored == TRUE

\* The condition of OP_REQUIRES_OK(context, parse_status).
ParseStatusOK == parse_status = OK

\* ParallelFor returns when every shard is done; then OP_REQUIRES_OK.
Join ==
    /\ pc = "construct"
    /\ next >= N
    /\ \A w \in Workers : wk[w].pc = "idle"
    /\ IF ParseStatusOK
          THEN pc' = "dispatch" /\ UNCHANGED status
          ELSE pc' = "done" /\ status' = parse_status
    /\ block_size' = 0
    /\ next' = 0
    /\ UNCHANGED <<inputs, output, qsim_circuits, slot_writes, parse_status,
                   p_lock, wk, large, caller>>

\* --------------------------------------------- the MPS simulator (qsim)
\* A one-qubit gate on one site.
GateOnSite(name, s) ==
    IF name = "X"
       THEN (CASE s = "0" -> "1" [] s = "1" -> "0" [] OTHER -> s)
       ELSE (CASE s = "0" -> "+" [] s = "+" -> "0"
               [] s = "1" -> "-" [] s = "-" -> "1" [] OTHER -> s)

\* MPSSimulator::ApplyGate on the state st.
ApplyGate(g, st) == [st EXCEPT ![g.q] = GateOnSite(g.name, @)]

\* MPSStateSpace::SetStateZero: the product state |0...0>.
SetStateZero(st) == [q \in DOMAIN st |-> "0"]

\* MPSStateSpace::Create(nq, bond_dim): the states a fresh buffer of nq
\* qubits can hold; its memory is not initialized.
Create(nq) == {[q \in 0..nq - 1 |-> s] : s \in Site}

\* The expectation of the Pauli operator p on qubit 0 in the state st.
Expectation(p, st) ==
    IF p = "Z" THEN (CASE st[0] = "0" -> 1 [] st[0] = "1" -> -1 [] OTHER -> 0)
               ELSE (CASE st[0] = "+" -> 1 [] st[0] = "-" -> -1 [] OTHER -> 0)

RECURSIVE ApplyGates(_, _)
\* The state after the gates of gs, in order, on the state st.
ApplyGates(gs, st) ==
    IF gs = <<>> THEN st
    ELSE ApplyGates(Tail(gs), ApplyGate(Head(gs), st))

\* ---------------------------------------------- dispatch: lines 120-138
\* Lines 120-123: the largest qubit count of the batch, 0 for no programs.
max_num_qubits ==
    IF N = 0 THEN 0
    ELSE CHOOSE x \in {num_qubits[k] : k \in 0..N - 1} :
             \A k \in 0..N - 1 : num_qubits[k] <= x

\* A branch that looks at the qubit count and the batch size only.
UseComputeLarge_Thresholds == max_num_qubits >= 26 \/ N = 1

\* Line 130: the condition of the branch that picks ComputeLarge.
UseComputeLarge == TRUE \/ max_num_qubits >= 26 \/ N = 1

\* ------------------------------------------ ComputeLarge: lines 144-210
\* Lines 155-161: the two buffers of one qubit each.
EnterLarge ==
    /\ pc = "dispatch"
    /\ largest_nq' = 1
    /\ sv' \in Create(1)
    /\ scratch_nq' = 1
    /\ i' = 0
    /\ j' = 0
    /\ sim_ops' = [sim_ops EXCEPT !.create = @ + 2]
    /\ pc' = "loop"
    /\ UNCHANGED <<inputs, status, output, par, num_failed, caller>>

\* A loop that keeps the buffers it started with.
NeedsLarger_Never(nq, largest) == FALSE

\* A loop that fits the buffers to every circuit.
NeedsLarger_Differs(nq, largest) == nq # largest

\* The condition under which the loop switches to a larger state space.
NeedsLarger(nq, largest) == nq > largest

\* A loop that leaves the last circuit out.
ItemsEnd_Short == Cardinality(DOMAIN qsim_circuits) - 1

\* Line 166: qsim_circuits.size(), the end of the loop over the circuits.
ItemsEnd == Cardinality(DOMAIN qsim_circuits)

\* Lines 166-175: the head of the loop over the circuits and the growth of
\* the buffers; at the end of the loop Compute returns.
LoopItem ==
    /\ pc = "loop"
    /\ IF i < ItemsEnd
          THEN /\ pc' = "reset"
               /\ IF NeedsLarger(num_qubits[i], largest_nq)
                     THEN /\ largest_nq' = num_qubits[i]
                          /\ sv' \in Create(num_qubits[i])
                          /\ scratch_nq' = num_qubits[i]
                          /\ sim_ops' = [sim_ops EXCEPT !.create = @ + 2]
                     ELSE UNCHANGED <<largest_nq, sv, scratch_nq, sim_ops>>
          ELSE /\ pc' = "done"
               /\ UNCHANGED <<largest_nq, sv, scratch_nq, sim_ops>>
    /\ UNCHANGED <<inputs, status, output, par, i, j, num_failed, caller>>

\* A loop that leaves the state as the circuit before left it.
ResetState_Skipped ==
    /\ pc = "reset"
    /\ sv' = sv
    /\ sim_ops' = sim_ops
    /\ j' = 0
    /\ pc' = "gates"
    /\ UNCHANGED <<inputs, status, output, par, largest_nq, scratch_nq, i,
                   num_failed, caller>>

\* Lines 179-180: the reset of the state and the copy of the gate list.
ResetState ==
    /\ pc = "reset"
    /\ sv' = SetStateZero(sv)
    /\ sim_ops' = [sim_ops EXCEPT !.setzero = @ + 1]
    /\ j' = 0
    /\ pc' = "gates"
    /\ UNCHANGED <<inputs, status, output, par, largest_nq, scratch_nq, i,
                   num_failed, caller>>

\* A loop that takes the gates from the last to the first.
GateAt_Reversed(gates, k) == gates[Len(gates) - k]

\* Line 194: qsim_gates[k], the gate that turn k of the loop applies.
GateAt(gates, k) == gates[k + 1]

\* Lines 182-195: one turn of the loop over the gates of circuit i.
GateStep ==
    /\ pc = "gates"
    /\ IF j < Len(qsim_circuits[i])
          THEN /\ sv' = ApplyGate(GateAt(qsim_circuits[i], j), sv)
               /\ sim_ops' = [sim_ops EXCEPT !.apply = @ + 1]
               /\ j' = j + 1
               /\ UNCHANGED pc
          ELSE /\ j' = 0
               /\ pc' = "sums"
               /\ UNCHANGED <<sv, sim_ops>>
    /\ UNCHANGED <<inputs, status, output, par, largest_nq, scratch_nq, i,
                   num_failed, caller>>

\* A loop without the branch for empty programs.
IsEmptyProgram_Never(gates) == FALSE

\* Line 198: the test for an empty program.
IsEmptyProgram(gates) == Len(gates) = 0

\* A loop that takes one turn more than there are pauli sums.
PauliSumsSize_OneMore(k) == Cardinality(DOMAIN pauli_sums) + 1

\* Line 196: pauli_sums[k].size(), the end of the loop over the pauli sums;
\* every row of input 3 has the same number of columns.
PauliSumsSize(k) == Cardinality(DOMAIN pauli_sums)

\* Lines 196-208: one turn of the loop over the pauli sums of circuit i.  An
\* empty program gets -2.0; for any other program exp_v stays a local and
\* the cell is not assigned.
SumStep ==
    /\ pc = "sums"
    /\ IF j < PauliSumsSize(i)
          THEN /\ IF IsEmptyProgram(qsim_circuits[i])
                     THEN output' = [output EXCEPT ![<<i, j>>] =
                                        [written |-> TRUE, val |-> -2]]
                     ELSE UNCHANGED output
               /\ j' = j + 1
               /\ UNCHANGED <<pc, i>>
          ELSE /\ i' = i + 1
               /\ j' = 0
               /\ pc' = "loop"
               /\ UNCHANGED output
    /\ UNCHANGED <<inputs, status, par, largest_nq, sv, scratch_nq, sim_ops,
                   num_failed, caller>>

\* ------------------------------------------ ComputeSmall: lines 212-282
\* The body of ComputeSmall is commented out: the call returns at once.
ComputeSmall ==
    /\ pc = "dispatch"
    /\ pc' = "done"
    /\ UNCHANGED <<inputs, status, output, par, large, caller>>

\* Lines 130-138: the branch between the two ways to simulate.
Dispatch == IF UseComputeLarge THEN EnterLarge ELSE ComputeSmall

\* --------------------------------------------------------- specification
Next ==
    \/ AllocateOutput
    \/ CheckBatchSize
    \/ CheckQubits
    \/ \E w \in Workers : TakeBlock(w)
    \/ \E w \in Workers : Construct(w)
    \/ \E w \in Workers : SyncLock(w)
    \/ \E w \in Workers : SyncStore(w)
    \/ Join
    \/ Dispatch
    \/ LoopItem
    \/ ResetState
    \/ GateStep
    \/ SumStep

Spec == Init /\ [][Next]_vars

\* ------------------------------------------------------------- scheduling
\* The steps of the thread that runs Compute.
KernelThread ==
    \/ AllocateOutput
    \/ CheckBatchSize
    \/ CheckQubits
    \/ Join
    \/ Dispatch
    \/ LoopItem
    \/ ResetState
    \/ GateStep
    \/ SumStep

\* The steps of the thread w of the pool.
WorkerThread(w) ==
    \/ TakeBlock(w)
    \/ Construct(w)
    \/ SyncLock(w)
    \/ SyncStore(w)

\* Every thread that can go on does go on; a thread that waits for p_lock
\* has no promise to get it while others take it.
SpecFair ==
    /\ Spec
    /\ WF_vars(KernelThread)
    /\ \A w \in Workers : WF_vars(WorkerThread(w))

\* ------------------------------------- a numerical failure of ApplyGate
\* Line 194 when the truncation inside ApplyGate fails numerically: the call
\* returns nothing, the state is left with unspecified content and the loop
\* goes on.
GateStepFail ==
    /\ pc = "gates"
    /\ j < Len(qsim_circuits[i])
    /\ sv' \in Create(largest_nq)
    /\ sim_ops' = [sim_ops EXCEPT !.apply = @ + 1]
    /\ num_failed' = IF num_failed = -1 THEN i ELSE num_failed
    /\ j' = j + 1
    /\ UNCHANGED <<inputs, pc, status, output, par, largest_nq, scratch_nq, i,
                   caller>>

NextNumFail == Next \/ GateStepFail

SpecNumFail == Init /\ [][NextNumFail]_vars

\* ------------------------------------------- two calls on the same inputs
\* The tensors a caller can read from the output: a cell the kernel assigned
\* holds the value assigned, any other cell holds what its memory held.
Observe(out) ==
    {t \in [DOMAIN out -> Garbage \cup {-2}] :
        \A c \in DOMAIN out :
            IF out[c].written THEN t[c] = out[c].val ELSE t[c] \in Garbage}

\* Compute returns: the caller gets the status and, when it is OK, reads the
\* output tensor.
Return ==
    /\ pc = "done"
    /\ \E t \in (IF status = OK THEN Observe(output) ELSE {<<>>}) :
          result' = [status |-> status, cells |-> t, valid |-> TRUE]
    /\ pc' = "returned"
    /\ UNCHANGED <<inputs, status, output, par, large, run, prev>>

\* The kernel is called again on the same input tensors.
Recompute ==
    /\ pc = "returned"
    /\ run = 1
    /\ run' = 2
    /\ prev' = result
    /\ pc' = "start"
    /\ status' = OK
    /\ output' = <<>>
    /\ qsim_circuits' = <<>>
    /\ slot_writes' = <<>>
    /\ parse_status' = OK
    /\ p_lock' = 0
    /\ block_size' = 0
    /\ next' = 0
    /\ wk' = [w \in Workers |-> Idle]
    /\ largest_nq' = 0
    /\ sv' = <<>>
    /\ scratch_nq' = 0
    /\ i' = 0
    /\ j' = 0
    /\ sim_ops' = NoOps
    /\ num_failed' = -1
    /\ result' = None
    /\ UNCHANGED inputs

NextTwo == Next \/ Return \/ Recompute

SpecTwo == Init /\ [][NextTwo]_vars

\* ------------------------------------------------------------ the claims
SimPcs == {"loop", "reset", "gates", "sums"}
Zero(n) == [q \in 0..n - 1 |-> "0"]

\* The state circuit k leaves when its gates act on the reset state.
FinalState(k) == ApplyGates(programs[k].gates, Zero(Max(programs[k].nq, 1)))

\* The loop over the pauli sums is past cell c.
Passed(c) ==
    \/ pc \in SimPcs /\ i > c[1]
    \/ pc = "sums" /\ i = c[1] /\ j > c[2]
    \/ pc = "done" /\ status = OK /\ sim_ops.create > 0

\* C1: when Compute has ended without error, every cell (i, j) of a program
\* with gates has been written and holds the expectation of observable j in
\* the state the gates of circuit i leave (empty programs: see C2).
C1_CellsHoldExpectation ==
    (pc = "done" /\ status = OK) =>
        \A c \in Cells :
            programs[c[1]].gates # <<>> =>
                /\ output[c].written
                /\ output[c].val = Expectation(pauli_sums[c[2]], FinalState(c[1]))

C4_FailedResolutionStopsCompute ==
    (/\ N = Cardinality(DOMAIN maps)
     /\ \A k \in DOMAIN programs : IsChain(programs[k])
     /\ \E k \in DOMAIN maps : maps[k] # Resolved) =>
        /\ pc \notin SimPcs \cup {"dispatch"}
        /\ sim_ops = NoOps
        /\ sv = <<>>
        /\ \A c \in DOMAIN output : ~output[c].written
        /\ pc = "done" =>
              /\ status.code = "UnresolvedSymbol"
              /\ status = parse_status
              /\ \E k \in DOMAIN maps : maps[k] = status.what

C4_Witness ==
    /\ pc = "done"
    /\ status.code = "UnresolvedSymbol"
    /\ \E k \in DOMAIN maps : maps[k] = Resolved
    /\ \A k \in DOMAIN slot_writes : slot_writes[k] = 1

\* C5: when the number of programs differs from the number of symbol maps,
\* Compute ends with the batch size error before any circuit is constructed,
\* any buffer is created, any gate is applied or any cell is written.
C5_BatchSizeMismatchStopsCompute ==
    N # Cardinality(DOMAIN maps) =>
        /\ pc \in {"start", "parse", "done"}
        /\ pc = "done" => status = ErrBatchSize
        /\ qsim_circuits = <<>>
        /\ \A w \in Workers : wk[w] = Idle
        /\ sim_ops = NoOps
        /\ sv = <<>>
        /\ \A c \in DOMAIN output : ~output[c].written

C5_Witness ==
    /\ pc = "done"
    /\ status = ErrBatchSize
    /\ N >= 1
    /\ Cardinality(DOMAIN maps) >= 1

C7_SameResultWhateverWorkers ==
    (pc = "returned" /\ run = 2) => result = prev

\* C8: the allocated qubit count starts at 1, never decreases, changes only
\* at the head of the loop, where the buffers are created anew iff
\* num_qubits[i] is greater than it, and is max(1, num_qubits[0..i]) after.
C8_BufferGrowsOnly ==
    [][/\ pc = "dispatch" => largest_nq' = 1
       /\ pc \in SimPcs => largest_nq' >= largest_nq
       /\ (pc = "loop" /\ i < N) =>
             /\ (sim_ops'.create > sim_ops.create) <=> (num_qubits[i] > largest_nq)
             /\ largest_nq' = MaxOver(num_qubits, i + 1)
             /\ largest_nq' = scratch_nq'
       /\ (pc \in SimPcs /\ ~(pc = "loop" /\ i < N)) =>
             /\ largest_nq' = largest_nq
             /\ sim_ops'.create = sim_ops.create]_vars

C8_Witness ==
    /\ pc = "sums"
    /\ i = 1
    /\ num_qubits[0] = 2
    /\ num_qubits[1] = 1
    /\ largest_nq = 2
    /\ sim_ops.create = 4

\* C9: whenever a gate of item i is about to be applied or an observable of
\* item i is handled, the state is the one the gates of item i applied so
\* far leave on |0...0>, whatever was simulated on the buffer before.
C9_StateStartsFromZero ==
    /\ pc = "gates" =>
          sv = ApplyGates(SubSeq(qsim_circuits[i], 1, j), Zero(largest_nq))
    /\ pc = "sums" => sv = ApplyGates(qsim_circuits[i], Zero(largest_nq))

C9_Witness ==
    /\ pc = "gates"
    /\ i = 1
    /\ j = 0
    /\ qsim_circuits[0] = <<[name |-> "X", q |-> 0]>>
    /\ qsim_circuits[1] # <<>>
    /\ num_qubits[1] > num_qubits[0]
    /\ sv = Zero(2)

\* C10: once a gate application has failed numerically, no later item is
\* simulated and Compute ends with an error status.
C10_NumericalFailureAborts ==
    num_failed # -1 =>
        /\ ~(pc \in {"reset", "gates", "sums"} /\ i > num_failed)
        /\ pc = "done" => status # OK

\* C11: when the batch sizes agree and some program has a two-qubit gate on
\* qubits that are not neighbours, Compute ends with the topology error and
\* before that constructs no circuit, starts no worker, creates no buffer,
\* applies no gate and writes no cell, for the valid programs of the batch
\* as well.
C11_NonChainStopsCompute ==
    (/\ N = Cardinality(DOMAIN maps)
     /\ \E k \in DOMAIN programs : ~IsChain(programs[k])) =>
        /\ pc \in {"start", "parse", "check1d", "done"}
        /\ pc = "done" => status = ErrTopology
        /\ qsim_circuits = <<>>
        /\ slot_writes = <<>>
        /\ \A w \in Workers : wk[w] = Idle
        /\ sim_ops = NoOps
        /\ sv = <<>>
        /\ \A c \in DOMAIN output : ~output[c].written

C11_Witness ==
    /\ pc = "done"
    /\ status = ErrTopology
    /\ N = 2
    /\ \E k \in DOMAIN programs : IsChain(programs[k])
    /\ \E k \in DOMAIN maps : maps[k] # Resolved

\* C12: from its allocation on the output tensor has exactly N rows and M
\* columns; every turn of the loop over the pauli sums handles a cell (i, j)
\* with i < N and j < M, a cell of the tensor, and the simulation loop
\* changes no other cell than that one.
C12_OutputIsNByM ==
    [][/\ pc' # "start" => DOMAIN output' = (0..N - 1) \X (0..M - 1)
       /\ (pc = "sums" /\ pc' = "sums") =>
             /\ i < N
             /\ j < M
             /\ <<i, j>> \in DOMAIN output
       /\ pc \in SimPcs =>
             \A c \in DOMAIN output :
                 output'[c] # output[c] => (pc = "sums" /\ c = <<i, j>>)]_vars

C12_Witness ==
    /\ pc = "sums"
    /\ N = 2
    /\ M = 2
    /\ i = 1
    /\ j = 2
    /\ programs[0].gates # <<>>
    /\ output[<<1, 0>>].written
    /\ output[<<1, 1>>].written

RECURSIVE GatesBefore(_)
\* The number of gates of the programs 0..k-1.
GatesBefore(k) ==
    IF k = 0 THEN 0 ELSE GatesBefore(k - 1) + Len(programs[k - 1].gates)

\* C13: the simulation phase takes the items in the order 0, 1, ..., N-1 and
\* the gates of item i in the order of the program: item i is reset after
\* all gates of the items before it and no other, turn j of the gate loop
\* applies gate j of program i to the state gates 0..j-1 left, the pauli
\* sums of item i are handled after its last gate with the state unchanged,
\* and i moves on by one only when all M of them are done.
C13_ItemsAndGatesInOrder ==
    [][/\ pc \in SimPcs =>
             \/ i' = i
             \/ i' = i + 1 /\ pc = "sums" /\ j = M /\ pc' = "loop"
       /\ (pc = "loop" /\ i < N) => pc' = "reset"
       /\ pc' = "reset" =>
             sim_ops'.setzero = i' /\ sim_ops'.apply = GatesBefore(i')
       /\ pc = "reset" => (pc' = "gates" /\ j' = 0)
       /\ pc' = "gates" =>
             sim_ops'.setzero = i' + 1 /\ sim_ops'.apply = GatesBefore(i') + j'
       /\ pc = "gates" =>
             IF j < Len(programs[i].gates)
                THEN /\ sv' = ApplyGate(programs[i].gates[j + 1], sv)
                     /\ j' = j + 1
                     /\ pc' = "gates"
                ELSE /\ sv' = sv
                     /\ j' = 0
                     /\ pc' = "sums"
       /\ pc' = "sums" =>
             sim_ops'.setzero = i' + 1 /\ sim_ops'.apply = GatesBefore(i' + 1)
       /\ pc = "sums" =>
             /\ sv' = sv
             /\ IF j < M THEN j' = j + 1 /\ pc' = "sums" ELSE pc' = "loop"]_vars

C13_Witness ==
    /\ pc = "sums"
    /\ i = 1
    /\ j = M
    /\ programs[0].gates = <<[name |-> "X", q |-> 0], [name |-> "H", q |-> 0]>>
    /\ programs[1].gates = <<[name |-> "H", q |-> 0], [name |-> "X", q |-> 0]>>
    /\ sv[0] = "+"
    /\ sim_ops.apply = 4

\* C14: all through the simulation loop the state buffer and the scratch
\* buffer have the same qubit count, largest_nq; while the gates of item i
\* are applied and its pauli sums are handled that count is at least
\* num_qubits[i], and every gate of the item acts on a qubit of the buffer.
C14_BuffersSameSizeAndLargeEnough ==
    /\ pc \in SimPcs =>
          /\ DOMAIN sv = 0..largest_nq - 1
          /\ scratch_nq = largest_nq
    /\ pc \in {"reset", "gates", "sums"} =>
          /\ largest_nq >= num_qubits[i]
          /\ \A g \in 1..Len(qsim_circuits[i]) : qsim_circuits[i][g].q \in DOMAIN sv

C14_Witness ==
    /\ pc = "gates"
    /\ i = 1
    /\ j = 1
    /\ num_qubits[0] = 1
    /\ num_qubits[1] = 2
    /\ DOMAIN sv = {0, 1}
    /\ scratch_nq = 2
    /\ sim_ops.create = 4

\* C15: Compute comes to its end, and the end is final.  When it ends without
\* error the simulation loop has gone through all N items, every reset, gate
\* and pauli sum of them; when it ends with an error that is one of the
\* errors of the phases before the simulation and nothing was simulated.
\* A worker that is not inside NESTED_FN_STATUS_SYNC does not hold p_lock,
\* and at the end nobody does.
C15_Terminates ==
    /\ <>(pc = "done")
    /\ [][pc = "done" => (pc' = "done" /\ status' = status)]_vars
    /\ []((pc = "done" /\ status = OK) =>
             /\ i = N
             /\ sim_ops.setzero = N
             /\ sim_ops.apply = GatesBefore(N)
             /\ \A k \in 0..N - 1 : slot_writes[k] = 1)
    /\ []((pc = "done" /\ status # OK) =>
             /\ \/ status \in {ErrBatchSize, ErrTopology}
                \/ \E k \in DOMAIN maps : status = ErrUnresolved(maps[k])
             /\ sim_ops = NoOps)
    /\ [](\A w \in Workers : (p_lock = w) <=> (wk[w].pc = "locked"))
    /\ [](pc # "construct" => (p_lock = 0 /\ \A w \in Workers : wk[w] = Idle))

C15_Witness ==
    /\ pc = "done"
    /\ status = OK
    /\ N = 2
    /\ i = 2
    /\ sim_ops.apply = 3
    /\ sim_ops.create = 4

\* C16: whatever the number of programs and their qubit counts, the step
\* after the construction phase enters ComputeLarge: it creates the one state
\* buffer and the one scratch buffer of the call and goes to the head of the
\* sequential loop; ComputeSmall is not called, and a Compute that ends
\* without error has made its Create calls in pairs, the first pair there.
C16_AlwaysComputeLarge ==
    [][/\ pc = "dispatch" =>
             /\ pc' = "loop"
             /\ largest_nq' = 1
             /\ DOMAIN sv' = {0}
             /\ scratch_nq' = 1
             /\ sim_ops'.create = 2
       /\ (pc' = "done" /\ status' = OK) =>
             /\ pc = "loop"
             /\ sim_ops'.create >= 2
             /\ sim_ops'.create % 2 = 0]_vars

C16_Witness ==
    /\ pc = "loop"
    /\ i = 0
    /\ N = 2
    /\ max_num_qubits = 2
    /\ sim_ops.create = 2

====
